---- MODULE Spec2Model ----
(***************************************************************************)
(* Static sampling-strategy store                                          *)
(* (plugin/sampling/strategystore/static/strategy_store.go).               *)
(*                                                                         *)
(* The store holds an atomically replaceable reference to a snapshot       *)
(* (a storedStrategies value).  NewStrategyStore loads the strategies once, *)
(* autoUpdateStrategies reloads them on every ticker tick until the        *)
(* context is cancelled by Close, and GetSamplingStrategy reads the        *)
(* current snapshot.                                                       *)
(*                                                                         *)
(* Conventions of the model:                                               *)
(*  - a Go pointer that may be nil is a sequence of length 0 (nil) or 1;   *)
(*  - snapshots live in `heap`, a reference is an index into it (0: none); *)
(*  - float parameters are counted in thousandths (500 is 0.5);            *)
(*  - raw file contents are short strings, decoded by jsonUnmarshal.       *)
(***************************************************************************)
EXTENDS Integers, Sequences, FiniteSets, TLC

----------------------------------------------------------------------------
(* Bounds of the model. *)

\* snapshots ever allocated in one behaviour (bootstrap included)
MaxSnapshots == 3
\* reloads the scheduler may start after Close was called
MaxReloadsAfterClose == 2

----------------------------------------------------------------------------
(* Values. *)

Nil == <<>>
Some(v) == <<v>>
IsNil(p) == p = <<>>
Deref(p) == p[1]

nullJSON == "null"

samplerTypeProbabilistic == "probabilistic"
samplerTypeRateLimiting == "ratelimiting"

\* 0.001, in thousandths
defaultSamplingProbability == 1

PROBABILISTIC == "PROBABILISTIC"
RATE_LIMITING == "RATE_LIMITING"

defaultStrategyResponse ==
    [ StrategyType          |-> PROBABILISTIC,
      ProbabilisticSampling |-> Some([SamplingRate |-> defaultSamplingProbability]),
      RateLimitingSampling  |-> Nil,
      OperationSampling     |-> Nil ]

EmptyMap == [x \in {} |-> defaultStrategyResponse]

defaultStrategies ==
    [ defaultStrategy   |-> defaultStrategyResponse,
      serviceStrategies |-> EmptyMap ]

\* int32(strategy.Param), Param in thousandths and within the int32 range
ToInt32(param) == param \div 1000

----------------------------------------------------------------------------
(* The strategy documents the source may hold. *)

Op(operation, type, param) ==
    [Operation |-> operation, Type |-> type, Param |-> param]

Svc(service, type, param, ops) ==
    [Service |-> service, Type |-> type, Param |-> param,
     OperationStrategies |-> ops]

\* the zero value of the strategies struct
ZeroStrategies == [DefaultStrategy |-> Nil, ServiceStrategies |-> <<>>]

DocA ==
    [ DefaultStrategy   |-> Some(Svc("", samplerTypeProbabilistic, 500, <<>>)),
      ServiceStrategies |->
        << Svc("foo", samplerTypeProbabilistic, 800,
               << Op("op1", samplerTypeProbabilistic, 200) >>) >> ]

DocB ==
    [ DefaultStrategy   |->
        Some(Svc("", samplerTypeProbabilistic, 500,
                 << Op("A", samplerTypeProbabilistic, 100),
                    Op("B", samplerTypeProbabilistic, 200) >>)),
      ServiceStrategies |->
        << Svc("foo", samplerTypeProbabilistic, 900,
               << Op("A", samplerTypeProbabilistic, 900),
                  Op("C", samplerTypeRateLimiting, 5000) >>),
           Svc("bar", samplerTypeProbabilistic, 700, <<>>) >> ]

DocC ==
    [ DefaultStrategy   |-> Some(Svc("", samplerTypeRateLimiting, 2500, <<>>)),
      ServiceStrategies |->
        << Svc("bar", "adaptive", 0, <<>>),
           Svc("foo", samplerTypeRateLimiting, 3000,
               << Op("op1", samplerTypeProbabilistic, 300),
                  Op("op1", samplerTypeProbabilistic, 400) >>) >> ]

\* Raw contents: the literal null, a text that is no JSON, three documents,
\* and DocA again with different white space.
RawContents == {nullJSON, "{bad", "docA", "docA ", "docB", "docC"}

ServiceNames == {"foo", "zed"}

\* json.Unmarshal(bytes, &strategies) with strategies a struct value
\* (updateSamplingStrategy): null leaves the zero value and is no error.
jsonUnmarshal(bytes) ==
    CASE bytes = nullJSON -> [err |-> "nil", isNull |-> TRUE,  v |-> ZeroStrategies]
      [] bytes = "docA"   -> [err |-> "nil", isNull |-> FALSE, v |-> DocA]
      [] bytes = "docA "  -> [err |-> "nil", isNull |-> FALSE, v |-> DocA]
      [] bytes = "docB"   -> [err |-> "nil", isNull |-> FALSE, v |-> DocB]
      [] bytes = "docC"   -> [err |-> "nil", isNull |-> FALSE, v |-> DocC]
      [] OTHER            -> [err |-> "unmarshal", isNull |-> FALSE, v |-> ZeroStrategies]

----------------------------------------------------------------------------
(* Strategy resolution. *)

\* parseStrategy returning the zero response at line 324
parseStrategyUnknownEmpty(strategy) ==
    CASE strategy.Type = samplerTypeProbabilistic ->
           [ StrategyType          |-> PROBABILISTIC,
             ProbabilisticSampling |-> Some([SamplingRate |-> strategy.Param]),
             RateLimitingSampling  |-> Nil,
             OperationSampling     |-> Nil ]
      [] strategy.Type = samplerTypeRateLimiting ->
           [ StrategyType          |-> RATE_LIMITING,
             ProbabilisticSampling |-> Nil,
             RateLimitingSampling  |-> Some([MaxTracesPerSecond |-> ToInt32(strategy.Param)]),
             OperationSampling     |-> Nil ]
      [] OTHER ->
           [ StrategyType          |-> PROBABILISTIC,
             ProbabilisticSampling |-> Nil,
             RateLimitingSampling  |-> Nil,
             OperationSampling     |-> Nil ]

parseStrategy(strategy) ==
    CASE strategy.Type = samplerTypeProbabilistic ->
           [ StrategyType          |-> PROBABILISTIC,
             ProbabilisticSampling |-> Some([SamplingRate |-> strategy.Param]),
             RateLimitingSampling  |-> Nil,
             OperationSampling     |-> Nil ]
      [] strategy.Type = samplerTypeRateLimiting ->
           [ StrategyType          |-> RATE_LIMITING,
             ProbabilisticSampling |-> Nil,
             RateLimitingSampling  |-> Some([MaxTracesPerSecond |-> ToInt32(strategy.Param)]),
             OperationSampling     |-> Nil ]
      [] OTHER -> defaultStrategyResponse

\* parseOperationStrategy without the rate-limiting check of line 293
parseOperationStrategyKeepAll(strategy, parent) ==
    [s |-> Some(parseStrategy(strategy)), ok |-> TRUE]

parseOperationStrategy(strategy, parent) ==
    LET s == parseStrategy(strategy) IN
    IF s.StrategyType = RATE_LIMITING
      THEN [s |-> Nil, ok |-> FALSE]
      ELSE [s |-> Some(s), ok |-> TRUE]

\* the loop of parseServiceStrategies over strategy.OperationStrategies;
\* a nil slice and an empty one are both <<>> (the code never builds an
\* empty non-nil PerOperationStrategies).
RECURSIVE parseOperationStrategies(_, _, _)
parseOperationStrategies(ops, i, opS) ==
    IF i > Len(ops) THEN opS
    ELSE LET r == parseOperationStrategy(ops[i], opS) IN
         parseOperationStrategies(ops, i + 1,
           IF ~r.ok THEN opS
           ELSE [opS EXCEPT !.PerOperationStrategies =
                   Append(@, [ Operation             |-> ops[i].Operation,
                               ProbabilisticSampling |-> Deref(r.s).ProbabilisticSampling ])])

parseServiceStrategies(strategy) ==
    LET resp == parseStrategy(strategy) IN
    IF Len(strategy.OperationStrategies) = 0 THEN resp
    ELSE LET opS == [ DefaultSamplingProbability |->
                        IF resp.StrategyType = PROBABILISTIC
                          THEN Deref(resp.ProbabilisticSampling).SamplingRate
                          ELSE defaultSamplingProbability,
                      PerOperationStrategies |-> <<>> ]
         IN [resp EXCEPT !.OperationSampling =
               Some(parseOperationStrategies(strategy.OperationStrategies, 1, opS))]

Operations(a) == {a[k].Operation : k \in 1..Len(a)}

RECURSIVE mergeAppend(_, _, _, _)
mergeAppend(a, b, j, m) ==
    IF j > Len(b) THEN a
    ELSE mergeAppend(IF b[j].Operation \in m THEN a ELSE Append(a, b[j]), b, j + 1, m)

\* the merge without the check of line 253
mergeKeepAll(a, b) == a \o b

\* the merge with the arguments swapped: b takes precedence over a
mergeDefaultFirst(a, b) ==
    mergeAppend(b, a, 1, Operations(b))

mergePerOperationSamplingStrategies(a, b) ==
    mergeAppend(a, b, 1, Operations(a))

----------------------------------------------------------------------------
(* The source of the strategies: a file or a URL. *)

StrategiesFiles == {"", "/etc/jaeger/strategies.json", "http://jaeger/strategies.json"}

\* url.Parse succeeds with a scheme and a host
isURL(str) == str = "http://jaeger/strategies.json"

\* what http.Get may answer: a transport (or body read) failure, or a status
\* and a body
HTTPResponses ==
    {[failed |-> TRUE, StatusCode |-> 0, Body |-> ""]}
      \cup {[failed |-> FALSE, StatusCode |-> 200, Body |-> b] : b \in RawContents}
      \cup {[failed |-> FALSE, StatusCode |-> 503, Body |-> ""],
            [failed |-> FALSE, StatusCode |-> 500, Body |-> "oops"]}

\* what os.ReadFile may answer
FileReads ==
    {[failed |-> TRUE, data |-> ""]}
      \cup {[failed |-> FALSE, data |-> b] : b \in RawContents}

downloadSamplingStrategies(resp) ==
    IF resp.failed THEN [bytes |-> "", err |-> "download"]
    ELSE IF resp.StatusCode = 503 THEN [bytes |-> nullJSON, err |-> "nil"]
    ELSE IF resp.StatusCode # 200 THEN [bytes |-> "", err |-> "status"]
    ELSE [bytes |-> resp.Body, err |-> "nil"]

\* the results one call of the loader of strategiesFile may give
samplingStrategyLoader(strategiesFile) ==
    IF isURL(strategiesFile)
      THEN {downloadSamplingStrategies(resp) : resp \in HTTPResponses}
      ELSE {IF f.failed THEN [bytes |-> "", err |-> "read"]
                        ELSE [bytes |-> f.data, err |-> "nil"] : f \in FileReads}

\* loadStrategies with json.Unmarshal into a struct value, as line 178 does:
\* null gives the address of the zero document
loadStrategiesIntoValue(res) ==
    IF res.err # "nil" THEN [strategies |-> Nil, err |-> res.err]
    ELSE LET u == jsonUnmarshal(res.bytes) IN
         IF u.err # "nil" THEN [strategies |-> Nil, err |-> u.err]
         ELSE [strategies |-> Some(u.v), err |-> "nil"]

\* loadStrategies on one result of loadFn: json.Unmarshal into a pointer,
\* which null leaves nil
loadStrategies(res) ==
    IF res.err # "nil" THEN [strategies |-> Nil, err |-> res.err]
    ELSE LET u == jsonUnmarshal(res.bytes) IN
         IF u.err # "nil" THEN [strategies |-> Nil, err |-> u.err]
         ELSE IF u.isNull THEN [strategies |-> Nil, err |-> "nil"]
         ELSE [strategies |-> Some(u.v), err |-> "nil"]

----------------------------------------------------------------------------
(* State. *)

Writers == {"ctor", "sched"}
Readers == {"r1"}

VARIABLES
    options,      \* Options given to NewStrategyStore
    heap,         \* the storedStrategies objects allocated so far
    stored,       \* h.storedStrategies: reference to the current snapshot
    cancelled,    \* ctx.Done() is closed
    tickPending,  \* a tick waits in ticker.C
    pc,           \* position of NewStrategyStore ("ctor") and of
                  \* autoUpdateStrategies ("sched")
    wr,           \* locals of the two: fetched bytes, err, strategies,
                  \* newStore, loop index, merge
    lastValue,    \* lastValue of autoUpdateStrategies
    ret,          \* what NewStrategyStore returned
    rd,           \* the GetSamplingStrategy call of each reader
    prevFetched,  \* history: bytes fetched by the previous tick ("": none)
    lastApplied,  \* history: raw content last loaded and applied
    afterClose    \* history: reloads started after Close

vars == <<options, heap, stored, cancelled, tickPending, pc, wr, lastValue,
          ret, rd, prevFetched, lastApplied, afterClose>>

WrInit ==
    [bytes |-> "", err |-> "nil", strategies |-> ZeroStrategies,
     newStore |-> 0, i |-> 0, merge |-> FALSE]

RdInit ==
    [pc |-> "idle", serviceName |-> "", ss |-> 0, strategy |-> Nil, err |-> "nil"]

Init ==
    /\ options \in [StrategiesFile : StrategiesFiles, ReloadInterval : {0, 1}]
    /\ heap = <<>>
    /\ stored = 0
    /\ cancelled = FALSE
    /\ tickPending = FALSE
    /\ pc = [w \in Writers |-> IF w = "ctor" THEN "start" ELSE "none"]
    /\ wr = [w \in Writers |-> WrInit]
    /\ lastValue = ""
    /\ ret = [h |-> FALSE, err |-> "nil"]
    /\ rd = [r \in Readers |-> RdInit]
    /\ prevFetched = ""
    /\ lastApplied = ""
    /\ afterClose = 0

----------------------------------------------------------------------------
(* parseStrategies, for a non-nil argument: lines 206-241. *)

MapPut(m, k, v) == [x \in DOMAIN m \cup {k} |-> IF x = k THEN v ELSE m[x]]

\* writes object v at reference id: a fresh reference extends the heap
Put(h, id, v) == IF id = Len(h) + 1 THEN Append(h, v) ELSE [h EXCEPT ![id] = v]

\* newStore := defaultStrategies() is a freshly allocated object
newStoreRefShared == stored
newStoreRef == Len(heap) + 1

\* the loop body with newOpS := newStore.defaultStrategy.OperationSampling at
\* line 229: the service refers to the default's table instead of copying it
parseStrategiesStepAliased(newStore, s, merge) ==
    LET resp == parseServiceStrategies(s)
        def  == newStore.defaultStrategy
    IN IF IsNil(resp.OperationSampling) /\ ~IsNil(def.OperationSampling)
            /\ ~IsNil(resp.ProbabilisticSampling)
         THEN LET newOpS == Some([Deref(def.OperationSampling) EXCEPT
                                    !.DefaultSamplingProbability =
                                        Deref(resp.ProbabilisticSampling).SamplingRate])
              IN [newStore EXCEPT
                    !.defaultStrategy.OperationSampling = newOpS,
                    !.serviceStrategies =
                        MapPut(@, s.Service, [resp EXCEPT !.OperationSampling = newOpS])]
         ELSE [newStore EXCEPT !.serviceStrategies = MapPut(@, s.Service, resp)]

\* one iteration of the loop over strategies.ServiceStrategies
parseStrategiesStep(newStore, s, merge) ==
    LET resp == parseServiceStrategies(s)
        opS  == resp.OperationSampling
        def  == newStore.defaultStrategy
        res  ==
          IF IsNil(opS)
            THEN IF IsNil(def.OperationSampling) \/ IsNil(resp.ProbabilisticSampling)
                   THEN resp
                   ELSE [resp EXCEPT !.OperationSampling =
                           Some([Deref(def.OperationSampling) EXCEPT
                                   !.DefaultSamplingProbability =
                                       Deref(resp.ProbabilisticSampling).SamplingRate])]
            ELSE IF merge
                   THEN [resp EXCEPT !.OperationSampling =
                           Some([Deref(opS) EXCEPT !.PerOperationStrategies =
                                   mergePerOperationSamplingStrategies(@,
                                     Deref(def.OperationSampling).PerOperationStrategies)])]
                   ELSE resp
    IN [newStore EXCEPT !.serviceStrategies = MapPut(@, s.Service, res)]

\* lines 206-215 once the object is allocated
parseStrategiesDefault(strategies) ==
    IF IsNil(strategies.DefaultStrategy) THEN defaultStrategies
    ELSE [defaultStrategies EXCEPT
            !.defaultStrategy = parseServiceStrategies(Deref(strategies.DefaultStrategy))]

mergeFlag(newStore) ==
    ~ (\/ IsNil(newStore.defaultStrategy.OperationSampling)
       \/ Deref(newStore.defaultStrategy.OperationSampling).PerOperationStrategies = <<>>)

parseStrategiesBeginEarlyStore(w) ==
    /\ pc[w] = "parse"
    /\ LET id == newStoreRef
           ns == parseStrategiesDefault(wr[w].strategies)
       IN /\ heap' = Put(heap, id, ns)
          /\ stored' = id
          /\ wr' = [wr EXCEPT ![w].newStore = id, ![w].i = 1,
                              ![w].merge = mergeFlag(ns)]
    /\ pc' = [pc EXCEPT ![w] = "loop"]
    /\ UNCHANGED <<options, cancelled, tickPending, lastValue, ret, rd,
                   prevFetched, lastApplied, afterClose>>

parseStrategiesBegin(w) ==
    /\ pc[w] = "parse"
    /\ LET id == newStoreRef
           ns == parseStrategiesDefault(wr[w].strategies)
       IN /\ heap' = Put(heap, id, ns)
          /\ wr' = [wr EXCEPT ![w].newStore = id, ![w].i = 1,
                              ![w].merge = mergeFlag(ns)]
    /\ pc' = [pc EXCEPT ![w] = "loop"]
    /\ UNCHANGED <<options, stored, cancelled, tickPending, lastValue, ret, rd,
                   prevFetched, lastApplied, afterClose>>

parseStrategiesLoop(w) ==
    /\ pc[w] = "loop"
    /\ wr[w].i <= Len(wr[w].strategies.ServiceStrategies)
    /\ heap' = [heap EXCEPT ![wr[w].newStore] =
                 parseStrategiesStep(@, wr[w].strategies.ServiceStrategies[wr[w].i],
                                     wr[w].merge)]
    /\ wr' = [wr EXCEPT ![w].i = @ + 1]
    /\ UNCHANGED <<options, stored, cancelled, tickPending, pc, lastValue, ret, rd,
                   prevFetched, lastApplied, afterClose>>

\* h.storedStrategies.Store(newStore), line 241
parseStrategiesStore(w) ==
    /\ pc[w] = "loop"
    /\ wr[w].i > Len(wr[w].strategies.ServiceStrategies)
    /\ stored' = wr[w].newStore
    /\ pc' = [pc EXCEPT ![w] = "parsed"]
    /\ UNCHANGED <<options, heap, cancelled, tickPending, wr, lastValue, ret, rd,
                   prevFetched, lastApplied, afterClose>>

----------------------------------------------------------------------------
(* NewStrategyStore: lines 56-80. *)

\* lines 57-67: the bootstrap snapshot is stored; without a strategies file
\* parseStrategies(nil) returns at once and the store is returned
NewStrategyStoreBegin ==
    /\ pc["ctor"] = "start"
    /\ heap' = Append(heap, defaultStrategies)
    /\ stored' = Len(heap) + 1
    /\ IF options.StrategiesFile = ""
         THEN /\ pc' = [pc EXCEPT !["ctor"] = "returned"]
              /\ ret' = [h |-> TRUE, err |-> "nil"]
         ELSE /\ pc' = [pc EXCEPT !["ctor"] = "load"]
              /\ ret' = ret
    /\ UNCHANGED <<options, cancelled, tickPending, wr, lastValue, rd,
                   prevFetched, lastApplied, afterClose>>

\* where NewStrategyStore goes after loadStrategies answered l (lines 70-74):
\* it fails on an error, and parseStrategies(nil) has nothing to do
afterLoadIgnoringErr(l) ==
    IF IsNil(l.strategies) THEN "parsed" ELSE "parse"
afterLoad(l) ==
    IF l.err # "nil" THEN "failed"
    ELSE IF IsNil(l.strategies) THEN "parsed" ELSE "parse"

\* lines 69-74 with the go statement of line 77 moved before line 74
NewStrategyStoreLoadGoFirst ==
    /\ pc["ctor"] = "load"
    /\ \E res \in samplingStrategyLoader(options.StrategiesFile) :
         LET l == loadStrategies(res)
             go == l.err = "nil" /\ options.ReloadInterval > 0
         IN
         /\ pc' = [pc EXCEPT !["ctor"] = afterLoad(l),
                             !["sched"] = IF go THEN "select" ELSE @]
         /\ lastValue' = IF go THEN nullJSON ELSE lastValue
         /\ wr' = [wr EXCEPT !["ctor"].bytes = res.bytes,
                             !["ctor"].err = l.err,
                             !["ctor"].strategies =
                                 IF IsNil(l.strategies) THEN @ ELSE Deref(l.strategies)]
         /\ ret' = IF afterLoad(l) = "failed" THEN [h |-> FALSE, err |-> l.err] ELSE ret
         /\ lastApplied' = IF l.err = "nil" THEN res.bytes ELSE lastApplied
    /\ UNCHANGED <<options, heap, stored, cancelled, tickPending, rd,
                   prevFetched, afterClose>>

\* lines 69-74
NewStrategyStoreLoad ==
    /\ pc["ctor"] = "load"
    /\ \E res \in samplingStrategyLoader(options.StrategiesFile) :
         LET l == loadStrategies(res) IN
         /\ pc' = [pc EXCEPT !["ctor"] = afterLoad(l)]
         /\ wr' = [wr EXCEPT !["ctor"].bytes = res.bytes,
                             !["ctor"].err = l.err,
                             !["ctor"].strategies =
                                 IF IsNil(l.strategies) THEN @ ELSE Deref(l.strategies)]
         /\ ret' = IF afterLoad(l) = "failed" THEN [h |-> FALSE, err |-> l.err] ELSE ret
         /\ lastApplied' = IF l.err = "nil" THEN res.bytes ELSE lastApplied
    /\ UNCHANGED <<options, heap, stored, cancelled, tickPending, lastValue, rd,
                   prevFetched, afterClose>>

\* lines 76-79 without the test of the reload interval
NewStrategyStoreFinishAlwaysGo ==
    /\ pc["ctor"] = "parsed"
    /\ pc' = [pc EXCEPT !["ctor"] = "returned", !["sched"] = "select"]
    /\ lastValue' = nullJSON
    /\ ret' = [h |-> TRUE, err |-> "nil"]
    /\ UNCHANGED <<options, heap, stored, cancelled, tickPending, wr, rd,
                   prevFetched, lastApplied, afterClose>>

\* lines 76-79: the goroutine is started when the first parseStrategies has
\* returned; line 148 of the goroutine is taken with it
NewStrategyStoreFinish ==
    /\ pc["ctor"] = "parsed"
    /\ IF options.ReloadInterval > 0
         THEN /\ pc' = [pc EXCEPT !["ctor"] = "returned", !["sched"] = "select"]
              /\ lastValue' = nullJSON
         ELSE /\ pc' = [pc EXCEPT !["ctor"] = "returned"]
              /\ lastValue' = lastValue
    /\ ret' = [h |-> TRUE, err |-> "nil"]
    /\ UNCHANGED <<options, heap, stored, cancelled, tickPending, wr, rd,
                   prevFetched, lastApplied, afterClose>>

----------------------------------------------------------------------------
(* autoUpdateStrategies and reloadSamplingStrategy: lines 147-185. *)

SchedAlive == pc["sched"] \notin {"none", "done"}

\* the ticker sends into ticker.C, a channel of capacity one, and drops the
\* tick when the channel is full
TickerFire ==
    /\ SchedAlive
    /\ ~tickPending
    /\ tickPending' = TRUE
    /\ UNCHANGED <<options, heap, stored, cancelled, pc, wr, lastValue, ret, rd,
                   prevFetched, lastApplied, afterClose>>

\* case <-ticker.C (lines 153-154).  When ctx.Done() is ready too, select
\* takes either case.
autoUpdateStrategiesTick ==
    /\ pc["sched"] = "select"
    /\ tickPending
    /\ Len(heap) < MaxSnapshots
    /\ cancelled => afterClose < MaxReloadsAfterClose
    /\ tickPending' = FALSE
    /\ pc' = [pc EXCEPT !["sched"] = "reload"]
    /\ prevFetched' = wr["sched"].bytes
    /\ wr' = [wr EXCEPT !["sched"].bytes = "", !["sched"].err = "nil"]
    /\ afterClose' = IF cancelled THEN afterClose + 1 ELSE afterClose
    /\ UNCHANGED <<options, heap, stored, cancelled, lastValue, ret, rd, lastApplied>>

\* ctx.Done() observed at any point of the loop body, not only by the select
autoUpdateStrategiesDoneAnywhere ==
    /\ SchedAlive
    /\ cancelled
    /\ pc' = [pc EXCEPT !["sched"] = "done"]
    /\ tickPending' = FALSE
    /\ UNCHANGED <<options, heap, stored, cancelled, wr, lastValue, ret, rd,
                   prevFetched, lastApplied, afterClose>>

\* case <-ctx.Done() (lines 155-156), with the deferred ticker.Stop()
autoUpdateStrategiesDone ==
    /\ pc["sched"] = "select"
    /\ cancelled
    /\ pc' = [pc EXCEPT !["sched"] = "done"]
    /\ tickPending' = FALSE
    /\ UNCHANGED <<options, heap, stored, cancelled, wr, lastValue, ret, rd,
                   prevFetched, lastApplied, afterClose>>

\* line 167
sameContentNever(last, new) == FALSE
sameContent(last, new) == last = new

\* what reloadSamplingStrategy returns when the reload failed (lines 165, 172)
valueOnFailureNew(last, new) == new
valueOnFailure(last, new) == last

\* lines 162-169
reloadSamplingStrategyLoad ==
    /\ pc["sched"] = "reload"
    /\ \E res \in samplingStrategyLoader(options.StrategiesFile) :
         /\ wr' = [wr EXCEPT !["sched"].bytes = res.bytes, !["sched"].err = res.err]
         /\ IF res.err # "nil"
              THEN /\ lastValue' = valueOnFailure(lastValue, res.bytes)
                   /\ pc' = [pc EXCEPT !["sched"] = "select"]
              ELSE IF sameContent(lastValue, res.bytes)
                     THEN /\ lastValue' = lastValue
                          /\ pc' = [pc EXCEPT !["sched"] = "select"]
                     ELSE /\ lastValue' = lastValue
                          /\ pc' = [pc EXCEPT !["sched"] = "update"]
    /\ UNCHANGED <<options, heap, stored, cancelled, tickPending, ret, rd,
                   prevFetched, lastApplied, afterClose>>

\* lines 170-173 and 177-182: json.Unmarshal into a struct value, then
\* parseStrategies with the address of that struct, which is never nil
updateSamplingStrategy ==
    /\ pc["sched"] = "update"
    /\ LET u == jsonUnmarshal(wr["sched"].bytes) IN
       IF u.err # "nil"
         THEN /\ wr' = [wr EXCEPT !["sched"].err = u.err]
              /\ lastValue' = valueOnFailure(lastValue, wr["sched"].bytes)
              /\ pc' = [pc EXCEPT !["sched"] = "select"]
         ELSE /\ wr' = [wr EXCEPT !["sched"].strategies = u.v]
              /\ lastValue' = lastValue
              /\ pc' = [pc EXCEPT !["sched"] = "parse"]
    /\ UNCHANGED <<options, heap, stored, cancelled, tickPending, ret, rd,
                   prevFetched, lastApplied, afterClose>>

\* reloadSamplingStrategy returning lastValue at line 174
reloadSamplingStrategyReturnKeepsLast ==
    /\ pc["sched"] = "parsed"
    /\ lastValue' = lastValue
    /\ lastApplied' = wr["sched"].bytes
    /\ pc' = [pc EXCEPT !["sched"] = "select"]
    /\ UNCHANGED <<options, heap, stored, cancelled, tickPending, wr, ret, rd,
                   prevFetched, afterClose>>

\* lines 183-184 and 174
reloadSamplingStrategyReturn ==
    /\ pc["sched"] = "parsed"
    /\ lastValue' = wr["sched"].bytes
    /\ lastApplied' = wr["sched"].bytes
    /\ pc' = [pc EXCEPT !["sched"] = "select"]
    /\ UNCHANGED <<options, heap, stored, cancelled, tickPending, wr, ret, rd,
                   prevFetched, afterClose>>

----------------------------------------------------------------------------
(* GetSamplingStrategy and Close: lines 82-96. *)

StoreReturned == pc["ctor"] = "returned" /\ ret.h

\* line 84
GetSamplingStrategyLoad(r) ==
    /\ StoreReturned
    /\ rd[r].pc \in {"idle", "returned"}
    /\ \E serviceName \in ServiceNames :
         rd' = [rd EXCEPT ![r] = [pc |-> "loaded", serviceName |-> serviceName,
                                  ss |-> stored, strategy |-> Nil, err |-> "nil"]]
    /\ UNCHANGED <<options, heap, stored, cancelled, tickPending, pc, wr, lastValue,
                   ret, prevFetched, lastApplied, afterClose>>

\* the snapshot line 90 takes the default strategy from: ss of line 84
fallbackSnapshotReloaded(r) == stored
fallbackSnapshot(r) == rd[r].ss

\* lines 85-90
GetSamplingStrategyReturn(r) ==
    /\ rd[r].pc = "loaded"
    /\ LET serviceStrategies == heap[rd[r].ss].serviceStrategies IN
       rd' = [rd EXCEPT ![r].pc = "returned",
                        ![r].strategy =
                            IF rd[r].serviceName \in DOMAIN serviceStrategies
                              THEN Some(serviceStrategies[rd[r].serviceName])
                              ELSE Some(heap[fallbackSnapshot(r)].defaultStrategy),
                        ![r].err = "nil"]
    /\ UNCHANGED <<options, heap, stored, cancelled, tickPending, pc, wr, lastValue,
                   ret, prevFetched, lastApplied, afterClose>>

\* Close that also puts the bootstrap snapshot back
CloseResetsStore ==
    /\ StoreReturned
    /\ cancelled' = TRUE
    /\ stored' = 1
    /\ UNCHANGED <<options, heap, tickPending, pc, wr, lastValue, ret, rd,
                   prevFetched, lastApplied, afterClose>>

\* h.cancelFunc()
Close ==
    /\ StoreReturned
    /\ cancelled' = TRUE
    /\ UNCHANGED <<options, heap, stored, tickPending, pc, wr, lastValue, ret, rd,
                   prevFetched, lastApplied, afterClose>>

----------------------------------------------------------------------------

Next ==
    \/ NewStrategyStoreBegin
    \/ NewStrategyStoreLoad
    \/ NewStrategyStoreFinish
    \/ \E w \in Writers : parseStrategiesBegin(w)
    \/ \E w \in Writers : parseStrategiesLoop(w)
    \/ \E w \in Writers : parseStrategiesStore(w)
    \/ TickerFire
    \/ autoUpdateStrategiesTick
    \/ autoUpdateStrategiesDone
    \/ reloadSamplingStrategyLoad
    \/ updateSamplingStrategy
    \/ reloadSamplingStrategyReturn
    \/ \E r \in Readers : GetSamplingStrategyLoad(r)
    \/ \E r \in Readers : GetSamplingStrategyReturn(r)
    \/ Close

Spec == Init /\ [][Next]_vars

----------------------------------------------------------------------------
(* Resolution of arbitrary documents: NewStrategyStore has loaded a document *)
(* and runs parseStrategies on it (line 74).                                 *)

\* operation overrides in one list
MaxOps == 2
\* entries of service_strategies
MaxServices == 2

SeqsUpTo(E, n) == UNION {[1..k -> E] : k \in 0..n}

\* <<operation, type>> of the overrides a default strategy and a service may
\* list; the parameter of an override is set by its place in the list
DefaultOpKinds ==
    {<<"A", samplerTypeProbabilistic>>, <<"B", samplerTypeProbabilistic>>,
     <<"B", samplerTypeRateLimiting>>}
ServiceOpKinds ==
    {<<"A", samplerTypeProbabilistic>>, <<"C", samplerTypeRateLimiting>>}

OpsOf(kinds, base) ==
    [i \in 1..Len(kinds) |->
       Op(kinds[i][1], kinds[i][2],
          IF kinds[i][2] = samplerTypeRateLimiting THEN 5000 ELSE base + 100 * i)]

ParamOf(type, rate) ==
    IF type = samplerTypeProbabilistic THEN rate
    ELSE IF type = samplerTypeRateLimiting THEN 2500 ELSE 0

DefaultInputs ==
    {Nil} \cup
    {Some(Svc("", type, ParamOf(type, 500), OpsOf(kinds, 0))) :
       type \in {samplerTypeProbabilistic, samplerTypeRateLimiting},
       kinds \in SeqsUpTo(DefaultOpKinds, MaxOps)}

\* "foo" may list overrides of its own, "bar" never does
FooInputs ==
    {Svc("foo", type, ParamOf(type, 800), OpsOf(kinds, 600)) :
       type \in {samplerTypeProbabilistic, samplerTypeRateLimiting},
       kinds \in SeqsUpTo(ServiceOpKinds, MaxOps)}
BarInputs ==
    {Svc("bar", type, ParamOf(type, 700), <<>>) :
       type \in {samplerTypeProbabilistic, samplerTypeRateLimiting, "adaptive"}}

ServiceListInputs ==
    {l \in SeqsUpTo(FooInputs \cup BarInputs, MaxServices) :
       Cardinality({i \in 1..Len(l) : l[i].Service = "foo"}) <= 1}

DocInputs ==
    {[DefaultStrategy |-> d, ServiceStrategies |-> l] :
       d \in DefaultInputs, l \in ServiceListInputs}

\* the state in which NewStrategyStore calls parseStrategies(strategies)
InitResolve ==
    /\ options = [StrategiesFile |-> "/etc/jaeger/strategies.json", ReloadInterval |-> 0]
    /\ heap = <<defaultStrategies>>
    /\ stored = 1
    /\ cancelled = FALSE
    /\ tickPending = FALSE
    /\ pc = [w \in Writers |-> IF w = "ctor" THEN "parse" ELSE "none"]
    /\ \E doc \in DocInputs :
         wr = [w \in Writers |->
                 IF w = "ctor" THEN [WrInit EXCEPT !.bytes = "doc", !.strategies = doc]
                               ELSE WrInit]
    /\ lastValue = ""
    /\ ret = [h |-> FALSE, err |-> "nil"]
    /\ rd = [r \in Readers |-> RdInit]
    /\ prevFetched = ""
    /\ lastApplied = "doc"
    /\ afterClose = 0

NextResolve ==
    \/ parseStrategiesBegin("ctor")
    \/ parseStrategiesLoop("ctor")
    \/ parseStrategiesStore("ctor")
    \/ NewStrategyStoreFinish

SpecResolve == InitResolve /\ [][NextResolve]_vars

----------------------------------------------------------------------------
(* Properties. *)

\* snapshots allocated by a parseStrategies that has not stored them yet
UnderConstruction == {wr[w].newStore : w \in {v \in Writers : pc[v] = "loop"}}

\* the snapshot parseStrategies builds from one whole document
RECURSIVE ResolveFrom(_, _, _, _)
ResolveFrom(newStore, services, i, merge) ==
    IF i > Len(services) THEN newStore
    ELSE ResolveFrom(parseStrategiesStep(newStore, services[i], merge),
                     services, i + 1, merge)

Resolve(strategies) ==
    LET first == parseStrategiesDefault(strategies) IN
    ResolveFrom(first, strategies.ServiceStrategies, 1, mergeFlag(first))

Complete(snapshot) ==
    \/ snapshot = defaultStrategies
    \/ \E b \in RawContents :
         /\ jsonUnmarshal(b).err = "nil"
         /\ snapshot = Resolve(jsonUnmarshal(b).v)

\* the tick in progress (or the last one) fetched the literal null
FetchedNull == SchedAlive /\ wr["sched"].err = "nil" /\ wr["sched"].bytes = nullJSON

\* C1: a reload tick whose fetch reports the source as unavailable (503 or
\* the literal null) never replaces the snapshot reference, whatever earlier
\* ticks did, and no caller gets an error.
C1_UnavailableSourcePublishesNothing ==
    [][FetchedNull' => (stored' = stored /\ \A r \in Readers : rd'[r].err = "nil")]_vars

\* the tick in progress (or the last one) fetched the bytes the tick before
\* it fetched
SameAsPreviousTick ==
    SchedAlive /\ wr["sched"].bytes # "" /\ wr["sched"].bytes = prevFetched

\* C2 as stated: when two consecutive ticks fetch the same bytes, the second
\* tick neither parses nor publishes.
C2_SameBytesNoParseNoPublish ==
    [][SameAsPreviousTick' =>
         /\ stored' = stored
         /\ heap' = heap
         /\ pc'["sched"] \notin {"update", "parse", "loop", "parsed"}]_vars

\* C2 (amended): when two consecutive ticks fetch the same bytes, the second
\* tick allocates and publishes no snapshot, so the current reference and the
\* object behind it stay the same; it reaches json.Unmarshal only for bytes
\* that do not parse (they were not remembered by the first tick), and never
\* reaches parseStrategies.
C2_SameBytesNoPublish ==
    [][SameAsPreviousTick' =>
         /\ stored' = stored
         /\ heap' = heap
         /\ pc'["sched"] \notin {"parse", "loop", "parsed"}
         /\ pc'["sched"] = "update" => jsonUnmarshal(wr'["sched"].bytes).err # "nil"]_vars

C2_Witness ==
    /\ pc["sched"] = "select"
    /\ SameAsPreviousTick
    /\ wr["sched"].bytes = "docB"
    /\ lastValue = "docB"
    /\ stored > 1

\* C3: a tick whose fetched bytes equal the raw content last applied, the
\* content of the startup load included, publishes no new snapshot.
C3_UnchangedContentPublishesNothing ==
    [][(SchedAlive' /\ wr'["sched"].bytes # "" /\ wr'["sched"].bytes = lastApplied')
         => stored' = stored]_vars

\* C4: GetSamplingStrategy returns no error and a strategy that is not nil,
\* taken from the one snapshot that was current when the call loaded it: the
\* entry of the service when the snapshot has one, else its default.
C4_GetReadsOneSnapshot ==
    /\ [](\A r \in Readers :
            rd[r].pc = "returned" =>
              /\ rd[r].err = "nil"
              /\ ~IsNil(rd[r].strategy)
              /\ rd[r].ss \in 1..Len(heap)
              /\ LET snapshot == heap[rd[r].ss] IN
                 Deref(rd[r].strategy) =
                   IF rd[r].serviceName \in DOMAIN snapshot.serviceStrategies
                     THEN snapshot.serviceStrategies[rd[r].serviceName]
                     ELSE snapshot.defaultStrategy)
    /\ [][\A r \in Readers :
            (rd[r].pc # "loaded" /\ rd'[r].pc = "loaded") => rd'[r].ss = stored]_vars

\* a call answered from the default of a snapshot that was replaced, while
\* the call was running, by one with another default
C4_Witness ==
    \E r \in Readers :
      /\ rd[r].pc = "returned"
      /\ rd[r].serviceName = "zed"
      /\ rd[r].ss # stored
      /\ heap[rd[r].ss].defaultStrategy # heap[stored].defaultStrategy
      /\ cancelled

\* C5: a tick that fails in the fetch or in json.Unmarshal leaves the
\* snapshot reference, the heap and lastValue as they were, gives no caller
\* an error, and the scheduler is back at the select.
C5_FailedReloadKeepsState ==
    [][(SchedAlive /\ wr["sched"].err = "nil" /\ wr'["sched"].err # "nil") =>
         /\ stored' = stored
         /\ heap' = heap
         /\ lastValue' = lastValue
         /\ pc'["sched"] = "select"
         /\ \A r \in Readers : rd'[r].err = "nil"]_vars

C5_Witness ==
    /\ pc["sched"] = "select"
    /\ wr["sched"].err = "unmarshal"
    /\ lastValue = "docA"
    /\ stored > 1

\* C6: with a strategies file, a first load that fails makes NewStrategyStore
\* return an error and no store, and no scheduler (nor its ticker) is started.
C6_FailedStartupReturnsNoStore ==
    /\ wr["ctor"].err # "nil" => pc["ctor"] = "failed"
    /\ pc["ctor"] = "failed" =>
         /\ ~ret.h
         /\ ret.err # "nil"
         /\ pc["sched"] = "none"
         /\ ~tickPending
         /\ \A r \in Readers : rd[r].pc = "idle"

C6_Witness ==
    /\ pc["ctor"] = "failed"
    /\ wr["ctor"].err = "unmarshal"
    /\ options.ReloadInterval > 0

\* C7: the snapshot a reader loads, and the one the store references, is
\* never one a parseStrategies is still building: it is the bootstrap
\* snapshot or the whole resolution of one document.
C7_ReadersSeeCompleteSnapshots ==
    /\ stored # 0 => (stored \notin UnderConstruction /\ Complete(heap[stored]))
    /\ \A r \in Readers :
         rd[r].pc # "idle" =>
           /\ rd[r].ss \notin UnderConstruction
           /\ Complete(heap[rd[r].ss])

\* a reader loads the snapshot while the scheduler is in the middle of the
\* loop that builds the next one
C7_Witness ==
    \E r \in Readers :
      /\ rd[r].pc = "loaded"
      /\ pc["sched"] = "loop"
      /\ wr["sched"].i = 2
      /\ wr["sched"].i <= Len(wr["sched"].strategies.ServiceStrategies)
      /\ rd[r].ss = stored

\* C8: an object that is published (every allocated snapshot that is not
\* under construction) is never changed, and parseStrategies builds each
\* snapshot in a newly allocated object.
C8_PublishedSnapshotsImmutable ==
    [][/\ \A id \in (1..Len(heap)) \ UnderConstruction : heap'[id] = heap[id]
       /\ \A w \in Writers :
            (pc[w] = "parse" /\ pc'[w] = "loop") =>
              /\ wr'[w].newStore \notin 1..Len(heap)
              /\ heap'[wr'[w].newStore] = parseStrategiesDefault(wr[w].strategies)]_vars

\* a reader still holds the strategy of a snapshot that was replaced twice
C8_Witness ==
    \E r \in Readers :
      /\ rd[r].pc = "returned"
      /\ rd[r].ss = 1
      /\ stored = 3
      /\ heap[1] = defaultStrategies

\* C9: the scheduler exists only once NewStrategyStore has published and
\* returned, the two never run parseStrategies at the same time, and the
\* reference of the store and the one each reader loaded only move to
\* snapshots allocated later.
C9_PublishesOrdered ==
    /\ [](pc["sched"] # "none" => pc["ctor"] = "returned")
    /\ [](Cardinality({w \in Writers : pc[w] \in {"parse", "loop"}}) <= 1)
    /\ [][/\ stored' >= stored
          /\ \A r \in Readers : rd'[r].ss >= rd[r].ss]_vars

\* a reader has read the snapshot of the startup load, the scheduler has
\* published the next one since, and the reader's next call will load it
C9_Witness ==
    \E r \in Readers :
      /\ rd[r].pc = "returned"
      /\ rd[r].ss = 2
      /\ stored = 3
      /\ pc["sched"] = "select"
      /\ lastValue = "docC"

\* C10: after Close the scheduler starts at most one more reload.
C10_AtMostOneReloadAfterClose ==
    afterClose <= 1


\* C11: once the scheduler has returned after Close, the snapshot reference
\* and the snapshots never change again, the scheduler stays terminated, and
\* every GetSamplingStrategy call made from then on loads that last snapshot
\* and returns a strategy and no error.
C11_FrozenAfterShutdown ==
    /\ [](pc["sched"] = "done" =>
            /\ cancelled
            /\ \A r \in Readers :
                 rd[r].pc = "returned" => (rd[r].err = "nil" /\ ~IsNil(rd[r].strategy)))
    /\ [][pc["sched"] = "done" =>
            /\ stored' = stored
            /\ heap' = heap
            /\ pc'["sched"] = "done"
            /\ \A r \in Readers :
                 (rd[r].pc # "loaded" /\ rd'[r].pc = "loaded") => rd'[r].ss = stored]_vars

\* a call made after the scheduler returned has loaded the snapshot the
\* scheduler published last
C11_Witness ==
    \E r \in Readers :
      /\ pc["sched"] = "done"
      /\ rd[r].pc = "loaded"
      /\ rd[r].ss = stored
      /\ stored = wr["sched"].newStore
      /\ stored > 1


----------------------------------------------------------------------------
(* Properties of the resolution, over the documents of DocInputs. *)

\* parseStrategies has stored the snapshot it built from the document
Published == pc["ctor"] \in {"parsed", "returned"} /\ stored = wr["ctor"].newStore

InputDoc == wr["ctor"].strategies

\* the entry of service_strategies that is stored under `name`: the last one
LastEntry(name) ==
    LET l == InputDoc.ServiceStrategies
        k == CHOOSE i \in 1..Len(l) :
               /\ l[i].Service = name
               /\ \A j \in (i + 1)..Len(l) : l[j].Service # name
    IN l[k]

InputServices == {InputDoc.ServiceStrategies[i].Service : i \in 1..Len(InputDoc.ServiceStrategies)}

IsRateLimitingOverride(o) == o.Type = samplerTypeRateLimiting

\* the entries a list of overrides stands for: its overrides that are not
\* rate-limiting, in input order, each with its own probability
OwnEntries(ops) ==
    LET kept == SelectSeq(ops, LAMBDA o : ~IsRateLimitingOverride(o)) IN
    [i \in 1..Len(kept) |->
       [ Operation             |-> kept[i].Operation,
         ProbabilisticSampling |->
           Some([SamplingRate |-> IF kept[i].Type = samplerTypeProbabilistic
                                    THEN kept[i].Param
                                    ELSE defaultSamplingProbability]) ]]

EntriesOf(resp) ==
    IF IsNil(resp.OperationSampling) THEN <<>>
    ELSE Deref(resp.OperationSampling).PerOperationStrategies

DefaultInputOps ==
    IF IsNil(InputDoc.DefaultStrategy) THEN <<>>
    ELSE Deref(InputDoc.DefaultStrategy).OperationStrategies

\* C12: a service with overrides of its own resolves to its own entries A in
\* input order, followed by the entries of the default's list B whose
\* operation is not named in A, in B's order (so the service's probability
\* wins for an operation named in both); the default's list is left as it was.
C12_MergePrecedence ==
    Published =>
      LET snapshot == heap[stored]
          B == EntriesOf(snapshot.defaultStrategy)
      IN /\ B = OwnEntries(DefaultInputOps)
         /\ \A name \in InputServices :
              LET s == LastEntry(name)
                  A == OwnEntries(s.OperationStrategies)
              IN Len(s.OperationStrategies) > 0 =>
                   EntriesOf(snapshot.serviceStrategies[name]) =
                     A \o SelectSeq(B, LAMBDA b : b.Operation \notin Operations(A))

\* default [A:0.1, B:0.2] and service [A:0.7] give [A:0.7, B:0.2]
C12_Witness ==
    /\ Published
    /\ "foo" \in DOMAIN heap[stored].serviceStrategies
    /\ EntriesOf(heap[stored].defaultStrategy) =
         << [Operation |-> "A", ProbabilisticSampling |-> Some([SamplingRate |-> 100])],
            [Operation |-> "B", ProbabilisticSampling |-> Some([SamplingRate |-> 200])] >>
    /\ EntriesOf(heap[stored].serviceStrategies["foo"]) =
         << [Operation |-> "A", ProbabilisticSampling |-> Some([SamplingRate |-> 700])],
            [Operation |-> "B", ProbabilisticSampling |-> Some([SamplingRate |-> 200])] >>


Count(entries, name) == Cardinality({i \in 1..Len(entries) : entries[i].Operation = name})

\* the entries lists of a snapshot, each with the input override lists its
\* entries can come from
ListsOf(snapshot) ==
    {[entries |-> EntriesOf(snapshot.defaultStrategy), own |-> DefaultInputOps]}
      \cup {[entries |-> EntriesOf(snapshot.serviceStrategies[name]),
             own     |-> LastEntry(name).OperationStrategies] :
              name \in DOMAIN snapshot.serviceStrategies}

\* C13 as stated: every entries list of a published snapshot names each
\* operation at most once, whatever the input.
C13_EntriesUnique ==
    Published =>
      \A l \in ListsOf(heap[stored]) :
        \A name \in Operations(l.entries) : Count(l.entries, name) = 1

\* C13 (amended): an entries list of a published snapshot names an operation
\* more than once only when that name is repeated among the overrides, other
\* than rate-limiting ones, of the strategy's own input list or of the
\* default's input list; the merge never adds a second entry for a name.
C13_EntriesUniqueUnlessInputRepeats ==
    Published =>
      \A l \in ListsOf(heap[stored]) :
        \A name \in Operations(l.entries) :
          Count(l.entries, name) > 1 =>
            \/ Count(OwnEntries(l.own), name) > 1
            \/ Count(OwnEntries(DefaultInputOps), name) > 1

\* a service that repeats A resolves to both its entries for A, and the
\* default's entry for A is not added to them
C13_Witness ==
    /\ Published
    /\ "foo" \in DOMAIN heap[stored].serviceStrategies
    /\ Count(EntriesOf(heap[stored].serviceStrategies["foo"]), "A") = 2
    /\ Count(EntriesOf(heap[stored].defaultStrategy), "A") = 1
    /\ Count(EntriesOf(heap[stored].serviceStrategies["foo"]), "B") = 1

----------------------------------------------------------------------------

HasRateLimitingOverride(ops) ==
    \E i \in 1..Len(ops) : IsRateLimitingOverride(ops[i])

WithoutRateLimiting(s) ==
    [s EXCEPT !.OperationStrategies = SelectSeq(@, LAMBDA o : ~IsRateLimitingOverride(o))]

\* the document without the rate-limiting overrides of its default strategy
DocDefaultStripped ==
    IF IsNil(InputDoc.DefaultStrategy) THEN InputDoc
    ELSE [InputDoc EXCEPT !.DefaultStrategy = Some(WithoutRateLimiting(Deref(@)))]

\* the document without the rate-limiting overrides of the entries of `name`
DocServiceStripped(name) ==
    [InputDoc EXCEPT !.ServiceStrategies =
       [i \in 1..Len(@) |-> IF @[i].Service = name THEN WithoutRateLimiting(@[i]) ELSE @[i]]]

\* base strategy and perOperation.defaultProbability (nil without perOperation)
BaseOf(resp) ==
    [ StrategyType          |-> resp.StrategyType,
      ProbabilisticSampling |-> resp.ProbabilisticSampling,
      RateLimitingSampling  |-> resp.RateLimitingSampling,
      DefaultProbability    |->
        IF IsNil(resp.OperationSampling) THEN Nil
        ELSE Some(Deref(resp.OperationSampling).DefaultSamplingProbability) ]

\* the resolved strategies of the snapshot, each with what it resolves to
\* when its own rate-limiting overrides are taken out of the input
StrategiesOf(snapshot) ==
    {[resolved |-> snapshot.defaultStrategy,
      stripped |-> Resolve(DocDefaultStripped).defaultStrategy,
      own      |-> DefaultInputOps]}
      \cup {[resolved |-> snapshot.serviceStrategies[name],
             stripped |-> Resolve(DocServiceStripped(name)).serviceStrategies[name],
             own      |-> LastEntry(name).OperationStrategies] :
              name \in DOMAIN snapshot.serviceStrategies}

\* no entry of the strategy stands for a rate-limiting override
NoRateLimitingEntry(x) ==
    \A i \in 1..Len(EntriesOf(x.resolved)) :
      /\ ~IsNil(EntriesOf(x.resolved)[i].ProbabilisticSampling)
      /\ \E o \in {x.own[k] : k \in 1..Len(x.own)}
                    \cup {DefaultInputOps[k] : k \in 1..Len(DefaultInputOps)} :
           /\ ~IsRateLimitingOverride(o)
           /\ o.Operation = EntriesOf(x.resolved)[i].Operation

\* C14 as stated: a rate-limiting override gives no entry, and the base
\* strategy and perOperation.defaultProbability of its strategy are what they
\* are without the override in the input.
C14_DroppedOverrideLeavesNoTrace ==
    Published =>
      \A x \in StrategiesOf(heap[stored]) :
        /\ NoRateLimitingEntry(x)
        /\ BaseOf(x.resolved) = BaseOf(x.stripped)

\* C14 (amended): a rate-limiting override gives no entry and never changes
\* the base strategy; a strategy with at least one override that is not
\* rate-limiting resolves to exactly what it resolves to without its
\* rate-limiting overrides; a strategy whose overrides are all rate-limiting
\* still gets a perOperation, with the defaultProbability such a table has.
C14_DroppedOverrideKeepsOthers ==
    Published =>
      \A x \in StrategiesOf(heap[stored]) :
        /\ NoRateLimitingEntry(x)
        /\ [BaseOf(x.resolved) EXCEPT !.DefaultProbability = Nil]
             = [BaseOf(x.stripped) EXCEPT !.DefaultProbability = Nil]
        /\ (\E k \in 1..Len(x.own) : ~IsRateLimitingOverride(x.own[k]))
             => x.resolved = x.stripped
        /\ (Len(x.own) > 0 /\ \A k \in 1..Len(x.own) : IsRateLimitingOverride(x.own[k]))
             => BaseOf(x.resolved).DefaultProbability =
                  Some(IF x.resolved.StrategyType = PROBABILISTIC
                         THEN Deref(x.resolved.ProbabilisticSampling).SamplingRate
                         ELSE defaultSamplingProbability)

\* "foo" lists a rate-limiting override before one for A: only A has an entry
C14_Witness ==
    /\ Published
    /\ "foo" \in DOMAIN heap[stored].serviceStrategies
    /\ Len(LastEntry("foo").OperationStrategies) = 2
    /\ IsRateLimitingOverride(LastEntry("foo").OperationStrategies[1])
    /\ IsNil(heap[stored].defaultStrategy.OperationSampling)
    /\ EntriesOf(heap[stored].serviceStrategies["foo"]) =
         << [Operation |-> "A", ProbabilisticSampling |-> Some([SamplingRate |-> 800])] >>

----------------------------------------------------------------------------

\* perOperation.defaultProbability of a strategy that has a perOperation and
\* was given as `s`: its own rate, the global default when it has none
OwnDefaultProbability(s) ==
    IF s.Type = samplerTypeProbabilistic THEN s.Param ELSE defaultSamplingProbability

\* C15: a service without overrides of its own has no perOperation when the
\* default has none or when the service is not probabilistic; otherwise its
\* perOperation has the default's entries and the service's own rate as
\* defaultProbability. The default's perOperation.defaultProbability and that
\* of every other service keep their own values.
C15_InheritedTableIsACopy ==
    Published =>
      LET snapshot == heap[stored]
          d        == snapshot.defaultStrategy
      IN /\ \A name \in InputServices :
              LET s == LastEntry(name)
                  r == snapshot.serviceStrategies[name]
              IN /\ Len(s.OperationStrategies) = 0 =>
                      IF IsNil(d.OperationSampling) \/ r.StrategyType # PROBABILISTIC
                        THEN IsNil(r.OperationSampling)
                        ELSE r.OperationSampling =
                               Some([ DefaultSamplingProbability |->
                                        Deref(r.ProbabilisticSampling).SamplingRate,
                                      PerOperationStrategies |-> EntriesOf(d) ])
                 /\ ~IsNil(r.OperationSampling) =>
                      Deref(r.OperationSampling).DefaultSamplingProbability =
                        OwnDefaultProbability(s)
         /\ ~IsNil(d.OperationSampling) =>
              /\ ~IsNil(InputDoc.DefaultStrategy)
              /\ Deref(d.OperationSampling).DefaultSamplingProbability =
                   OwnDefaultProbability(Deref(InputDoc.DefaultStrategy))

\* "bar" (0.7, no overrides) inherits the entries of a default with rate 0.5,
\* next to a "foo" (0.8) with overrides of its own
C15_Witness ==
    /\ Published
    /\ {"foo", "bar"} \subseteq DOMAIN heap[stored].serviceStrategies
    /\ LET d == heap[stored].defaultStrategy
           r == heap[stored].serviceStrategies["bar"]
           f == heap[stored].serviceStrategies["foo"]
       IN /\ Len(EntriesOf(d)) = 2
          /\ Deref(d.OperationSampling).DefaultSamplingProbability = 500
          /\ EntriesOf(r) = EntriesOf(d)
          /\ Deref(r.OperationSampling).DefaultSamplingProbability = 700
          /\ Len(LastEntry("foo").OperationStrategies) > 0
          /\ Deref(f.OperationSampling).DefaultSamplingProbability = 800

----------------------------------------------------------------------------

\* exactly one of probabilistic / rateLimiting is set, the one of the type
WellTyped(resp) ==
    \/ /\ resp.StrategyType = PROBABILISTIC
       /\ ~IsNil(resp.ProbabilisticSampling)
       /\ IsNil(resp.RateLimitingSampling)
    \/ /\ resp.StrategyType = RATE_LIMITING
       /\ IsNil(resp.ProbabilisticSampling)
       /\ ~IsNil(resp.RateLimitingSampling)

KnownTypes == {samplerTypeProbabilistic, samplerTypeRateLimiting}

\* C17: the default and every service entry of the current snapshot, the
\* bootstrap one included, has exactly one of probabilistic / rateLimiting
\* set, matching its type; an entry of unknown type resolves to the bootstrap
\* default strategy.
C17_ExactlyOneSamplerSet ==
    /\ WellTyped(heap[stored].defaultStrategy)
    /\ \A name \in DOMAIN heap[stored].serviceStrategies :
         WellTyped(heap[stored].serviceStrategies[name])
    /\ Published =>
         \A name \in InputServices :
           LET s == LastEntry(name)
               r == heap[stored].serviceStrategies[name]
           IN /\ s.Type = samplerTypeProbabilistic => r.StrategyType = PROBABILISTIC
              /\ s.Type = samplerTypeRateLimiting => r.StrategyType = RATE_LIMITING
              /\ s.Type \notin KnownTypes =>
                   [r EXCEPT !.OperationSampling = Nil] = defaultStrategyResponse

\* "bar" has an unknown type, next to a rate-limiting default
C17_Witness ==
    /\ Published
    /\ "bar" \in InputServices
    /\ LastEntry("bar").Type \notin KnownTypes
    /\ heap[stored].serviceStrategies["bar"].ProbabilisticSampling =
         Some([SamplingRate |-> defaultSamplingProbability])
    /\ heap[stored].defaultStrategy.StrategyType = RATE_LIMITING

----------------------------------------------------------------------------
(* Properties of the store, over the behaviours of Spec. *)

\* C16: the scheduler runs only with a source, a first load that succeeded
\* and a reload interval above zero; without a source the constructor returns
\* a store holding the bootstrap defaults and no error; without a source or
\* with a zero interval the snapshot in place when the constructor returns is
\* never replaced.
C16_SchedulerOnlyWhenConfigured ==
    /\ [](/\ pc["sched"] # "none" =>
                /\ options.StrategiesFile # ""
                /\ options.ReloadInterval > 0
                /\ wr["ctor"].err = "nil"
                /\ StoreReturned
          /\ pc["ctor"] \in {"returned", "failed"} /\ options.StrategiesFile = "" =>
                /\ ret = [h |-> TRUE, err |-> "nil"]
                /\ heap[stored] = defaultStrategies)
    /\ [][pc["ctor"] = "returned"
            /\ (options.StrategiesFile = "" \/ options.ReloadInterval = 0)
          => /\ stored' = stored
             /\ heap' = heap
             /\ pc'["sched"] = "none"]_vars

\* a store with a source and a zero interval has answered a reader and been
\* closed; no scheduler exists
C16_Witness ==
    /\ StoreReturned
    /\ options.StrategiesFile # ""
    /\ options.ReloadInterval = 0
    /\ stored > 1
    /\ pc["sched"] = "none"
    /\ rd["r1"].pc = "returned"
    /\ cancelled

----------------------------------------------------------------------------

\* the scheduler is inside reloadSamplingStrategy
InFlight == pc["sched"] \in {"reload", "update", "parse", "loop", "parsed"}

\* where reloadSamplingStrategy goes next from each of its positions
Following(pos) ==
    CASE pos = "reload" -> {"select", "update"}
      [] pos = "update" -> {"select", "parse"}
      [] pos = "parse"  -> {"loop"}
      [] pos = "loop"   -> {"loop", "parsed"}
      [] pos = "parsed" -> {"select"}
      [] OTHER          -> {}

\* C18: a reload in flight is never aborted by Close. The scheduler leaves
\* its loop only from the select, every step of a reload goes on to the next
\* position of reloadSamplingStrategy whether or not the context is
\* cancelled, a reload that fetched changed content that parsed has published
\* the complete resolution of it when it returns, any other reload has
\* published nothing, and the current snapshot is never one under construction.
C18_CloseNeverAbortsReload ==
    /\ [](/\ pc["sched"] = "parsed" =>
                /\ wr["sched"].err = "nil"
                /\ wr["sched"].bytes # lastValue
                /\ stored = wr["sched"].newStore
                /\ heap[stored] = Resolve(jsonUnmarshal(wr["sched"].bytes).v)
          /\ stored \notin UnderConstruction
          /\ pc["sched"] = "done" => cancelled)
    /\ [][/\ pc'["sched"] = "done" => pc["sched"] \in {"select", "done"}
          /\ InFlight /\ pc'["sched"] # pc["sched"] =>
               pc'["sched"] \in Following(pc["sched"])
          /\ InFlight /\ pc["sched"] # "loop" => stored' = stored
          /\ InFlight /\ stored' # stored =>
               /\ pc'["sched"] = "parsed"
               /\ stored' = wr["sched"].newStore
               /\ heap' = heap]_vars

\* Close came while the scheduler was resolving; the reload has published
C18_Witness ==
    /\ cancelled
    /\ afterClose = 0
    /\ pc["sched"] = "parsed"
    /\ stored = wr["sched"].newStore
    /\ stored > 2

----------------------------------------------------------------------------

\* the first load of NewStrategyStore fetched the literal null
StartupNull ==
    /\ pc["ctor"] \in {"parse", "loop", "parsed", "returned", "failed"}
    /\ wr["ctor"].err = "nil"
    /\ wr["ctor"].bytes = nullJSON

\* C19: when the first load fetches the literal null, NewStrategyStore
\* succeeds, resolves nothing and leaves the bootstrap snapshot in place; the
\* scheduler starts exactly when the interval is positive, with lastValue
\* null, and as long as no tick has resolved a document a tick that fetches
\* null again changes nothing.
C19_NullAtStartupKeepsBootstrap ==
    /\ [](StartupNull =>
            /\ pc["ctor"] \in {"parsed", "returned"}
            /\ wr["ctor"].newStore = 0
            /\ heap[1] = defaultStrategies
            /\ Len(heap) = 1 => stored = 1 /\ lastApplied = nullJSON
            /\ pc["ctor"] = "parsed" => pc["sched"] = "none"
            /\ pc["ctor"] = "returned" =>
                 /\ ret = [h |-> TRUE, err |-> "nil"]
                 /\ pc["sched"] # "none" <=> options.ReloadInterval > 0
                 /\ SchedAlive /\ Len(heap) = 1 => lastValue = nullJSON)
    /\ [][StartupNull /\ Len(heap) = 1 /\ pc["sched"] = "reload"
            /\ wr'["sched"].err = "nil" /\ wr'["sched"].bytes = nullJSON
          => /\ pc'["sched"] = "select"
             /\ stored' = 1
             /\ heap' = heap
             /\ lastValue' = nullJSON]_vars

\* the source answered null at startup and null again at a tick
C19_Witness ==
    /\ StartupNull
    /\ pc["ctor"] = "returned"
    /\ pc["sched"] = "select"
    /\ FetchedNull
    /\ prevFetched = nullJSON
    /\ Len(heap) = 1
    /\ stored = 1

----------------------------------------------------------------------------

\* C20: lastValue changes only when a tick that has published returns, and
\* becomes the bytes that tick fetched and applied; a tick that has published
\* always changes it, a tick that publishes nothing leaves it; so when the
\* scheduler waits for a tick after a publishing tick, the current snapshot
\* is the resolution of the document lastValue holds.
C20_FingerprintFollowsSnapshot ==
    /\ [](/\ pc["sched"] = "parsed" =>
                /\ stored = wr["sched"].newStore
                /\ wr["sched"].bytes # lastValue
          /\ pc["sched"] = "select" /\ wr["sched"].newStore # 0 =>
                /\ stored = wr["sched"].newStore
                /\ lastValue = lastApplied
                /\ jsonUnmarshal(lastValue).err = "nil"
                /\ heap[stored] = Resolve(jsonUnmarshal(lastValue).v))
    /\ [][pc["sched"] # "none" =>
            /\ lastValue' # lastValue =>
                 /\ pc["sched"] = "parsed"
                 /\ lastValue' = wr["sched"].bytes
            /\ pc["sched"] = "parsed" /\ pc'["sched"] # "parsed" =>
                 /\ pc'["sched"] = "select"
                 /\ lastValue' # lastValue
            /\ stored' # stored =>
                 /\ pc["sched"] = "loop"
                 /\ pc'["sched"] = "parsed"
            /\ pc["sched"] \in {"reload", "update"} /\ pc'["sched"] = "select" =>
                 /\ lastValue' = lastValue
                 /\ stored' = stored]_vars

\* a tick published docB; a later tick failed and left both in place
C20_Witness ==
    /\ pc["sched"] = "select"
    /\ wr["sched"].newStore # 0
    /\ stored = wr["sched"].newStore
    /\ lastValue = "docB"
    /\ wr["sched"].err # "nil"
    /\ heap[stored] = Resolve(DocB)

====
